---- MODULE Spec2Model ----
(***************************************************************************)
(* Model of prepeek (src/src/lib.rs): Prepeek<I, L>, an iterator wrapper   *)
(* that keeps the next L items of the wrapped iterator in a ring buffer so *)
(* that peek() and peek_nth::<N>() work on &self.                          *)
(*                                                                         *)
(* Option<T> is modelled as a sequence of length at most one:              *)
(* None is << >> and Some(v) is <<v>>.                                     *)
(***************************************************************************)
EXTENDS Integers, Sequences, FiniteSets, TLC

\* ---- bounds of the model ----
MaxL == 3          \* largest lookahead depth L explored
MaxLen == 3        \* longest script of the wrapped iterator
MaxVal == 2        \* items are 1..MaxVal
MaxN == 4          \* largest peek_nth offset N explored
MaxAdvance == 5    \* most next() calls made by the caller after new()
MaxPeekRun == 2    \* consecutive peek calls counted up to this many

None == << >>
Some(v) == <<v>>
IsSome(o) == o # None
Items == 1..MaxVal
OptionItem == {None} \cup {Some(v) : v \in Items}

\* Scripts of the wrapped iterator: the results of its successive next()
\* calls; past the end of the script it returns None forever.
RECURSIVE SeqsUpTo(_, _)
SeqsUpTo(S, n) ==
    IF n = 0 THEN {<< >>}
    ELSE LET shorter == SeqsUpTo(S, n - 1)
         IN  shorter \cup {Append(s, x) : s \in {t \in shorter : Len(t) = n - 1}, x \in S}
Scripts == SeqsUpTo(OptionItem, MaxLen)

VARIABLES
    L,           \* const generic L of Prepeek<I, L>
    src,         \* script of the wrapped iterator (what I yields, call by call)
    iter,        \* field iter: position of the wrapped iterator in its script
    ring,        \* field ring: [Option<I::Item>; L], indexed 0..L-1
    ring_index,  \* field ring_index
    pc,          \* "new" while new() runs its fill loop, "ready" once it returned
    i,           \* loop counter of `for _ in 0..L` in new()
    pulls,       \* number of calls made to self.iter.next()
    discarded,   \* values returned by the s.next() calls of new() (dropped)
    out,         \* values returned by the caller's next() calls, in order
    lastPeek,    \* the most recent peek()/peek_nth() call and its result
    peekRun,     \* number of peek calls made since the last next() call
    pulled,      \* values returned by the calls to self.iter.next(), in order
    mod_by_zero  \* some operation has evaluated `x % L` with L = 0

vars == <<L, src, iter, ring, ring_index, pc, i, pulls, discarded, out, lastPeek, peekRun,
          pulled, mod_by_zero>>

\* ---- the wrapped iterator ----
\* Result of the k-th call (k >= 1) ever made to the wrapped iterator.
PullAt(k) == IF k <= Len(src) THEN src[k] ELSE None

\* self.iter.next(): the value returned in the current state
iter_next == IF iter < Len(src) THEN src[iter + 1] ELSE None

\* self.iter.next(): the iterator's position afterwards
iter_advance == IF iter < Len(src) THEN iter + 1 ELSE iter

\* peek_nth reading the slot at N without the ring_index offset
peek_nth_no_index(n) ==
    IF n >= L
    THEN None
    ELSE ring[n % L]

\* peek_nth reading one slot too far
peek_nth_off_by_one(n) ==
    IF n >= L
    THEN None
    ELSE ring[(ring_index + n + 1) % L]

\* peek_nth whose capacity test is N > L instead of N >= L
peek_nth_gt(n) ==
    IF n > L \/ L = 0
    THEN None
    ELSE ring[(ring_index + n) % L]

\* ---- Prepeek::peek_nth / Prepeek::peek ----
peek_nth(n) ==
    IF n >= L
    THEN None
    ELSE ring[(ring_index + n) % L]

\* peek_nth taking the buffered branch whenever N <= L
peek_nth_mods_gt(n) == ~(n > L)

\* peek_nth::<n>() evaluates `(self.ring_index + N) % L`: only in the else
\* branch of `if N >= L`
peek_nth_mods(n) == ~(n >= L)

\* peek looking at the second upcoming item
peek_second == peek_nth(1)

peek == peek_nth(0)

\* next() returning the value just pulled instead of the slot's old value
next_ret_passthrough == iter_next

\* next() dropping the pulled value when there is no buffer
next_ret_unbuffered_none ==
    IF L # 0 THEN ring[ring_index] ELSE None

\* next() storing the pulled value only when it is a Some
next_ring_keep_on_none ==
    IF L # 0 /\ IsSome(iter_next) THEN [ring EXCEPT ![ring_index] = iter_next] ELSE ring

\* next() storing the pulled value one slot after ring_index
next_ring_wrong_slot ==
    IF L # 0 THEN [ring EXCEPT ![(ring_index + 1) % L] = iter_next] ELSE ring

\* next() clearing the slot instead of storing the pulled value
next_ring_drop_pulled ==
    IF L # 0 THEN [ring EXCEPT ![ring_index] = None] ELSE ring

\* ---- Iterator::next for Prepeek ----
\* value returned by next(): the old contents of the slot when L != 0
next_ret ==
    IF L # 0 THEN ring[ring_index] ELSE iter_next

\* ring after next(): mem::replace stores the pulled value at ring_index
next_ring ==
    IF L # 0 THEN [ring EXCEPT ![ring_index] = iter_next] ELSE ring

\* next() stepping ring_index without wrapping it
next_ring_index_no_wrap ==
    IF L # 0 THEN ring_index + 1 ELSE ring_index

\* next() leaving ring_index where it is
next_ring_index_stuck == ring_index

\* ring_index after next()
next_ring_index ==
    IF L # 0 THEN (ring_index + 1) % L ELSE ring_index

\* next() evaluates `(self.ring_index + 1) % L`: only inside `if L != 0`
next_mods == L # 0

\* next() that stops calling the wrapped iterator once it has run dry
next_body_skip_when_dry ==
    /\ iter' = iter_advance
    /\ pulls' = IF iter < Len(src) THEN pulls + 1 ELSE pulls
    /\ pulled' = IF iter < Len(src) THEN Append(pulled, iter_next) ELSE pulled
    /\ ring' = next_ring
    /\ ring_index' = next_ring_index
    /\ mod_by_zero' = (mod_by_zero \/ (next_mods /\ L = 0))

\* the state change of one next() call on the Prepeek
next_body ==
    /\ iter' = iter_advance
    /\ pulls' = pulls + 1
    /\ pulled' = Append(pulled, iter_next)
    /\ ring' = next_ring
    /\ ring_index' = next_ring_index
    /\ mod_by_zero' = (mod_by_zero \/ (next_mods /\ L = 0))

PeekRunNext == IF peekRun < MaxPeekRun THEN peekRun + 1 ELSE peekRun

NoPeek == [valid |-> FALSE, fn |-> "peek_nth", n |-> 0, res |-> None, at |-> 0]

\* State built by the struct literal of new(), before the fill loop.
Init ==
    /\ L \in 0..MaxL
    /\ src \in Scripts
    /\ iter = 0
    /\ ring = [k \in 0..(L - 1) |-> None]
    /\ ring_index = 0
    /\ pc = "new"
    /\ i = 0
    /\ pulls = 0
    /\ discarded = << >>
    /\ out = << >>
    /\ lastPeek = NoPeek
    /\ peekRun = 0
    /\ pulled = << >>
    /\ mod_by_zero = FALSE

\* fill loop of new() running 0..=L, one iteration too many
new_fill_one_more ==
    /\ pc = "new"
    /\ i <= L
    /\ next_body
    /\ discarded' = Append(discarded, next_ret)
    /\ i' = i + 1
    /\ UNCHANGED <<L, src, pc, out, lastPeek, peekRun>>

\* one iteration of `for _ in 0..L { s.next(); }`
new_fill ==
    /\ pc = "new"
    /\ i < L
    /\ next_body
    /\ discarded' = Append(discarded, next_ret)
    /\ i' = i + 1
    /\ UNCHANGED <<L, src, pc, out, lastPeek, peekRun>>

\* new() returning after L - 1 iterations of the fill loop
new_return_early ==
    /\ pc = "new"
    /\ i >= L - 1
    /\ pc' = "ready"
    /\ UNCHANGED <<L, src, iter, ring, ring_index, i, pulls, discarded, out, lastPeek, peekRun,
                   pulled, mod_by_zero>>

\* new() returns s
new_return ==
    /\ pc = "new"
    /\ i >= L
    /\ pc' = "ready"
    /\ UNCHANGED <<L, src, iter, ring, ring_index, i, pulls, discarded, out, lastPeek, peekRun,
                   pulled, mod_by_zero>>

\* the caller calls next()
next ==
    /\ pc = "ready"
    /\ Len(out) < MaxAdvance
    /\ next_body
    /\ out' = Append(out, next_ret)
    /\ peekRun' = 0
    /\ UNCHANGED <<L, src, pc, i, discarded, lastPeek>>

\* peek_nth implemented by consuming: it drives next() and reports its value
peek_nth_call_consuming(n) ==
    /\ pc = "ready"
    /\ next_body
    /\ lastPeek' = [valid |-> TRUE, fn |-> "peek_nth", n |-> n,
                    res |-> peek_nth(n), at |-> Len(out)]
    /\ peekRun' = PeekRunNext
    /\ UNCHANGED <<L, src, pc, i, discarded, out>>

\* the caller calls peek_nth::<n>()
peek_nth_call(n) ==
    /\ pc = "ready"
    /\ lastPeek' = [valid |-> TRUE, fn |-> "peek_nth", n |-> n,
                    res |-> peek_nth(n), at |-> Len(out)]
    /\ peekRun' = PeekRunNext
    /\ mod_by_zero' = (mod_by_zero \/ (peek_nth_mods(n) /\ L = 0))
    /\ UNCHANGED <<L, src, iter, ring, ring_index, pc, i, pulls, discarded, out, pulled>>

\* the caller calls peek()
peek_call ==
    /\ pc = "ready"
    /\ lastPeek' = [valid |-> TRUE, fn |-> "peek", n |-> 0,
                    res |-> peek, at |-> Len(out)]
    /\ peekRun' = PeekRunNext
    /\ mod_by_zero' = (mod_by_zero \/ (peek_nth_mods(0) /\ L = 0))
    /\ UNCHANGED <<L, src, iter, ring, ring_index, pc, i, pulls, discarded, out, pulled>>

Next ==
    \/ new_fill
    \/ new_return
    \/ next
    \/ \E n \in 0..MaxN : peek_nth_call(n)
    \/ peek_call

Spec == Init /\ [][Next]_vars

\* new() is straight-line synchronous code: its loop and its return always run.
FairSpec == Spec /\ WF_vars(new_fill) /\ WF_vars(new_return)

TypeOK ==
    /\ L \in 0..MaxL
    /\ src \in Scripts
    /\ iter \in 0..Len(src)
    /\ DOMAIN ring = 0..(L - 1)
    /\ \A k \in DOMAIN ring : ring[k] \in OptionItem
    /\ pc \in {"new", "ready"}
    /\ i \in 0..L
    /\ pulls \in Nat
    /\ Len(pulled) = pulls
    /\ mod_by_zero \in BOOLEAN
    /\ Len(out) <= MaxAdvance

\* ---- vocabulary of the properties ----
\* the wrapped iterator keeps returning None once it has returned None
Fused == \A a, b \in 1..Len(src) : (a < b /\ src[a] = None) => src[b] = None

\* the items of the wrapped iterator, in order
Elems == SelectSeq(src, IsSome)

\* the wrapped iterator has returned None at least once
IterExhausted == \E k \in 1..pulls : PullAt(k) = None

\* the items returned so far by the caller's next() calls
Returned == SelectSeq(out, IsSome)

Offsets == 0..MaxN

\* ---- C1 ----
\* C1: for every depth L and every input from an iterator that stays
\* exhausted once finished, the values returned by the caller's next()
\* calls are exactly the input items in order, then only None.
C1_Transparent ==
    (pc = "ready" /\ Fused) =>
        \A k \in 1..Len(out) :
            out[k] = IF k <= Len(Elems) THEN Elems[k] ELSE None

\* all of a two-item input came out of a buffered adapter, then a None
C1_Witness ==
    /\ pc = "ready" /\ Fused /\ L >= 2
    /\ Len(Elems) >= 2
    /\ Len(out) > Len(Elems)

\* ---- C2 ----
\* C2: after construction, for every offset n < L, peek_nth(n) reads slot
\* (ring_index + n) mod L, and the value it reported is the value returned
\* by the (n+1)-th next() call made after the peek.
C2_WindowInvariant ==
    /\ pc = "ready" =>
          \A n \in 0..(L - 1) : peek_nth(n) = ring[(ring_index + n) % L]
    /\ (lastPeek.valid /\ lastPeek.n < L /\ Len(out) >= lastPeek.at + lastPeek.n + 1) =>
          out[lastPeek.at + lastPeek.n + 1] = lastPeek.res

\* an item peeked at offset >= 1 after some next() calls has since been returned
C2_Witness ==
    /\ lastPeek.valid /\ lastPeek.n >= 1 /\ lastPeek.n < L
    /\ lastPeek.at >= 1
    /\ IsSome(lastPeek.res)
    /\ Len(out) >= lastPeek.at + lastPeek.n + 1

\* ---- C3 ----
\* C3 as stated: for every offset n, with no restriction relative to L,
\* peek_nth(n) called before any next() reports the value the (n+1)-th
\* next() call returns.
C3_AsStated ==
    (lastPeek.valid /\ lastPeek.at = 0 /\ Len(out) >= lastPeek.n + 1) =>
        out[lastPeek.n + 1] = lastPeek.res

\* C3 amended: for every offset n < L, peek_nth(n) called before any next()
\* reports the value the (n+1)-th next() call returns.
C3_PeekBeforeAdvance ==
    (lastPeek.valid /\ lastPeek.at = 0 /\ lastPeek.n < L /\ Len(out) >= lastPeek.n + 1) =>
        out[lastPeek.n + 1] = lastPeek.res

\* an item peeked at offset >= 1 right after new() has since been returned
C3_Witness ==
    /\ lastPeek.valid /\ lastPeek.at = 0
    /\ lastPeek.n >= 1 /\ lastPeek.n < L
    /\ IsSome(lastPeek.res)
    /\ Len(out) >= lastPeek.n + 1

\* ---- C4 ----
\* C4: in every reachable state and for every offset n >= L, peek_nth(n)
\* is None, whatever the buffer and the wrapped iterator still hold.
C4_CapacityCeiling ==
    /\ \A n \in Offsets : n >= L => peek_nth(n) = None
    /\ (lastPeek.valid /\ lastPeek.n >= L) => lastPeek.res = None

\* peek_nth was just called past the capacity of a full buffer while the
\* wrapped iterator still has an item to give
C4_Witness ==
    /\ pc = "ready" /\ L >= 1
    /\ lastPeek.valid /\ lastPeek.n >= L /\ lastPeek.at = Len(out)
    /\ \A k \in 0..(L - 1) : IsSome(ring[k])
    /\ IsSome(iter_next)

\* ---- C5 ----
\* C5: a peek call leaves the ring, the ring index and the wrapped iterator
\* unchanged, does not change what the next next() call returns, and
\* reports the same result as the previous peek at the same offset when no
\* next() call came in between.
C5_PeekPure ==
    [][(pc = "ready" /\ pc' = "ready" /\ out' = out) =>
        /\ UNCHANGED <<ring, ring_index, iter, pulls>>
        /\ next_ret' = next_ret
        /\ (lastPeek.valid /\ lastPeek.at = Len(out) /\ lastPeek'.n = lastPeek.n) =>
              lastPeek'.res = lastPeek.res]_vars

\* after some next() calls an item was peeked at least twice in a row
C5_Witness ==
    /\ lastPeek.valid /\ IsSome(lastPeek.res)
    /\ lastPeek.at >= 1
    /\ Len(out) = lastPeek.at
    /\ peekRun >= 2

\* ---- C6 ----
\* C6: with L = 0, peek() and peek_nth(n) are None in every state and for
\* every n, each next() returns the value it has just pulled from the
\* wrapped iterator, and the ring and the ring index never change.
C6_ZeroDepth ==
    (L = 0) =>
        /\ peek = None
        /\ \A n \in Offsets : peek_nth(n) = None
        /\ lastPeek.res = None
        /\ ring = << >>
        /\ ring_index = 0
        /\ pulls = Len(out)
        /\ \A k \in 1..Len(out) : out[k] = PullAt(k)

\* an unbuffered adapter has passed two values through and was peeked
C6_Witness ==
    /\ L = 0 /\ pc = "ready"
    /\ Len(out) >= 2 /\ IsSome(out[2])
    /\ lastPeek.valid /\ lastPeek.at >= 1

\* ---- C7 ----
\* C7 as stated: if the wrapped iterator yields fewer than L items, then
\* once it is exhausted every further next() call and every peek_nth call
\* reports None.
C7_AsStated ==
    (pc = "ready" /\ Fused /\ Len(Elems) < L /\ IterExhausted) =>
        /\ next_ret = None
        /\ \A n \in Offsets : peek_nth(n) = None

\* C7 amended: if the wrapped iterator yields fewer than L items, then once
\* it is exhausted and next() has returned every one of its items, every
\* further next() call and every peek_nth call reports None, and no slot of
\* the ring holds an item.
C7_ShortInputDrained ==
    (pc = "ready" /\ Fused /\ Len(Elems) < L /\ IterExhausted /\ Returned = Elems) =>
        /\ next_ret = None
        /\ \A n \in Offsets : peek_nth(n) = None
        /\ \A k \in 0..(L - 1) : ring[k] = None

\* a short input was returned in full and the ring has wrapped around
C7_Witness ==
    /\ pc = "ready" /\ Fused
    /\ Len(Elems) >= 1 /\ Len(Elems) < L
    /\ Returned = Elems
    /\ Len(out) > L

\* ---- C8 ----
\* C8: for any depth L, once next() has returned every item of the input,
\* every later next() returns None and peek_nth(n) is None for every n.
C8_DrainedForever ==
    (pc = "ready" /\ Fused) =>
        /\ \A k \in 0..Len(out) :
              SelectSeq(SubSeq(out, 1, k), IsSome) = Elems =>
                  \A j \in (k + 1)..Len(out) : out[j] = None
        /\ Returned = Elems => \A n \in Offsets : peek_nth(n) = None

\* the input is no longer than the depth, it was returned in full, and
\* next() was called again afterwards
C8_Witness ==
    /\ pc = "ready" /\ Fused
    /\ Len(Elems) >= 2 /\ L >= Len(Elems)
    /\ Returned = Elems
    /\ Len(out) >= Len(Elems) + 2

\* ---- C9 ----
\* C9: new() always returns; it pulls from the wrapped iterator exactly L
\* times, and when it returns slot j of the ring holds the result of pull
\* j+1, which is None for every slot past the end of a short input.
C9_ConstructionState ==
    /\ pc = "new" => (pulls = i /\ i <= L)
    /\ (pc = "ready" /\ out = << >>) =>
          /\ pulls = L
          /\ Len(discarded) = L
          /\ ring_index = 0
          /\ \A j \in 0..(L - 1) : ring[j] = PullAt(j + 1)
          /\ Fused => \A j \in 0..(L - 1) : j >= Len(Elems) => ring[j] = None

C9_Construction == []C9_ConstructionState /\ <>(pc = "ready")

\* new() has returned for an input shorter than the depth
C9_Witness ==
    /\ pc = "ready" /\ out = << >>
    /\ Fused /\ Len(Elems) >= 1 /\ Len(Elems) < L

\* ---- C10 ----
\* C10: in every state after construction peek() equals peek_nth(0); it is
\* the value the next next() call returns when L > 0 and None when L = 0.
C10_PeekIsPeekNth0 ==
    /\ pc = "ready" =>
          /\ peek = peek_nth(0)
          /\ L > 0 => peek = next_ret
          /\ L = 0 => peek = None
    /\ (lastPeek.valid /\ lastPeek.fn = "peek") =>
          /\ L = 0 => lastPeek.res = None
          /\ (L > 0 /\ Len(out) > lastPeek.at) => out[lastPeek.at + 1] = lastPeek.res

\* peek() reported an item after some next() calls and the next next()
\* call has been made
C10_Witness ==
    /\ lastPeek.valid /\ lastPeek.fn = "peek"
    /\ lastPeek.at >= 1
    /\ IsSome(lastPeek.res)
    /\ Len(out) > lastPeek.at

\* ---- C11 ----
\* C11: every next() call makes exactly one call to the wrapped iterator,
\* also when L = 0 and also after the iterator has returned None, and no
\* peek call makes one: after new() and k next() calls, with any number of
\* peeks in between, the iterator has been called exactly L + k times.
C11_OnePullPerAdvance ==
    /\ pc = "new" => (pulls = i /\ Len(pulled) = i)
    /\ pc = "ready" => (pulls = L + Len(out) /\ Len(pulled) = L + Len(out))

\* next() was called twice after the iterator had already returned None,
\* with peeks in between
C11_Witness ==
    /\ pc = "ready"
    /\ Len(out) >= 2 /\ pulls >= 3
    /\ pulled[pulls - 2] = None
    /\ lastPeek.valid /\ lastPeek.at = Len(out) - 1

\* ---- C12 ----
\* C12: when L > 0, one next() call stores the pulled value in the slot at
\* the old ring_index, returns what that slot held, sets ring_index to
\* (ring_index + 1) mod L and leaves every other slot unchanged.
C12_AdvanceFrame ==
    [][(L > 0 /\ (out' # out \/ discarded' # discarded)) =>
        /\ ring'[ring_index] = pulled'[Len(pulled')]
        /\ Len(pulled') = Len(pulled) + 1
        /\ out' # out => out' = Append(out, ring[ring_index])
        /\ discarded' # discarded => discarded' = Append(discarded, ring[ring_index])
        /\ ring_index' = (ring_index + 1) % L
        /\ \A k \in 0..(L - 1) : k # ring_index => ring'[k] = ring[k]]_vars

\* a next() call has returned an item from a slot other than slot 0 of a
\* ring with several slots, which still holds items
C12_Witness ==
    /\ pc = "ready" /\ L >= 2
    /\ Len(out) >= 2 /\ IsSome(out[2])
    /\ \E k \in 0..(L - 1) : IsSome(ring[k])

\* ---- C13 ----
\* C13: in every reachable state, inside the fill loop of new() and after
\* any number of next() calls, ring_index is in 0..L-1 when L > 0 and is 0
\* when L = 0, so the slot next() uses and the slots peek_nth uses exist.
C13_RingIndexInBounds ==
    /\ L > 0 => ring_index \in 0..(L - 1)
    /\ L = 0 => ring_index = 0
    /\ next_mods => ring_index \in DOMAIN ring
    /\ \A n \in Offsets : peek_nth_mods(n) => ((ring_index + n) % L) \in DOMAIN ring

\* the ring index has gone round a ring of several slots and stands on
\* its last slot
C13_Witness ==
    /\ pc = "ready" /\ L >= 2
    /\ Len(out) >= L
    /\ ring_index = L - 1

\* ---- C14 ----
\* C14: no operation evaluates a modulo by zero: with L = 0, new(), next(),
\* peek() and peek_nth(n) for every n take the branch that computes no
\* `x % L`.
C14_NoModuloByZero ==
    /\ mod_by_zero = FALSE
    /\ L = 0 => (~next_mods /\ \A n \in Offsets : ~peek_nth_mods(n))

\* with L = 0, new() has returned, next() was called and peek_nth::<0>()
\* was called after it
C14_Witness ==
    /\ L = 0 /\ pc = "ready"
    /\ Len(out) >= 1
    /\ lastPeek.valid /\ lastPeek.n = 0 /\ lastPeek.at >= 1

\* ---- C15 ----
\* C15: for any wrapped iterator, also one that yields items again after
\* a None, the k-th next() call made after new() returns the result of the
\* k-th call ever made to the wrapped iterator, None results included.
C15_DelayLine ==
    pc = "ready" =>
        \A k \in 1..Len(out) : (k <= Len(pulled) /\ out[k] = pulled[k])

\* a buffered adapter has returned a None and then an item, as its
\* non-fused iterator produced them
C15_Witness ==
    /\ pc = "ready" /\ L >= 1
    /\ ~Fused
    /\ \E k \in 1..(Len(out) - 1) : out[k] = None /\ IsSome(out[k + 1])

\* ---- C16 ----
\* C16: every value returned by the next() calls that new() makes, and
\* drops, is None: new() loses no item of the wrapped iterator, for any L
\* and any input length.
C16_PrimingDropsNothing ==
    /\ \A k \in 1..Len(discarded) : discarded[k] = None
    /\ pc = "ready" => Len(discarded) = L

\* new() has returned after pulling several items into the ring
C16_Witness ==
    /\ pc = "ready" /\ L >= 2
    /\ Len(discarded) = L
    /\ IsSome(pulled[1]) /\ IsSome(pulled[2])

\* ---- C17 ----
\* the ring read in ring order, starting at ring_index
RingOrder == [n \in 1..L |-> ring[(ring_index + n - 1) % L]]

\* the results the wrapped iterator's script has not given yet
NotYetPulled == SubSeq(src, iter + 1, Len(src))

\* C17: in every state reachable after construction, the items already
\* returned by next(), then the items of the ring in ring order from
\* ring_index, then the items the wrapped iterator has not yet yielded
\* make up exactly the input sequence.
C17_Conservation ==
    pc = "ready" =>
        Returned \o SelectSeq(RingOrder, IsSome) \o SelectSeq(NotYetPulled, IsSome) = Elems

\* items are in all three places at once: one returned, one in the
\* ring, one still in the wrapped iterator
C17_Witness ==
    /\ pc = "ready" /\ L >= 1
    /\ Len(Returned) >= 1
    /\ Len(SelectSeq(RingOrder, IsSome)) >= 1
    /\ Len(SelectSeq(NotYetPulled, IsSome)) >= 1

\* ---- C18 ----
\* C18: for a wrapped iterator that stays exhausted once finished, in every
\* state where peek_nth can be called, if peek_nth(n) is None for some
\* n < L then peek_nth(m) is None for every m > n: in ring order no None
\* comes before an item.
C18_ExhaustionMonotone ==
    (pc = "ready" /\ Fused) =>
        /\ \A n \in 0..(L - 1) : \A m \in Offsets :
              (m > n /\ peek_nth(n) = None) => peek_nth(m) = None
        /\ \A a, b \in 1..L : (a < b /\ RingOrder[a] = None) => RingOrder[b] = None

\* after next() calls the lookahead window of a ring of several slots
\* holds an item followed by a None
C18_Witness ==
    /\ pc = "ready" /\ Fused /\ L >= 2
    /\ Len(out) >= 1
    /\ IsSome(peek_nth(0))
    /\ peek_nth(L - 1) = None
====
